---- MODULE Spec2Model ----
(***************************************************************************)
(* A model of the mesh generation engine of src/services/geometryEngine.ts *)
(* (class GeometryEngine and the worker script it starts).                 *)
(*                                                                         *)
(* Lengths are fixed-point numbers in thousandths of a unit: 0.1 is 100,   *)
(* the closure tolerance 0.001 is 1.  A BufferGeometry is an object of the *)
(* heap: two geometries are the same instance iff they are the same heap   *)
(* index, and clone() allocates a new index with the same content.         *)
(***************************************************************************)
EXTENDS Integers, Sequences, FiniteSets, TLC

\* ------------------------------------------------------------------ bounds

\* number of requestGeometry calls of one run
MaxRequests == 2
\* generateLODs calls made
MaxLodCalls == 1
MaxAttempts == 2
MaxHistory == 2

\* ------------------------------------------------------------- program constants

maxCacheSize == 100
ClosureTol == 1
DensityLimit == 50
DefaultDepth == 100

\* maxEdgeLength of the adaptive subdivision, 0.3
SubdivideEdge == 300

\* an attribute a geometry does not have
NoPosition == [kind |-> "none", length |-> 0]
NoAttribute == [kind |-> "none", length |-> 0]

\* ------------------------------------------------------------------ inputs

Tri == << <<0, 0>>, <<0, 200>>, <<200, 0>> >>
TwoPts == << <<0, 0>>, <<200, 200>> >>
DupPts == << <<0, 0>>, <<0, 0>>, <<200, 200>> >>
ClosedPts == << <<0, 0>>, <<200, 200>>, <<0, 0>> >>

BaseProps ==
    [id |-> 1, points |-> Tri, form |-> "extrusion", type |-> "solid",
     height |-> 3000, elevation |-> 0, offset |-> [x |-> 0, z |-> 0],
     scaleFactor |-> 50]

BaseCall ==
    [props |-> BaseProps, quality |-> "high", useCache |-> TRUE, adaptive |-> FALSE]

\* the calls of a run: the base call and the calls that differ from it in one argument
Calls ==
    { BaseCall,
      [BaseCall EXCEPT !.props.id = 2],
      [BaseCall EXCEPT !.props.points = TwoPts],
      [BaseCall EXCEPT !.props.points = DupPts],
      [BaseCall EXCEPT !.props.points = ClosedPts],
      [BaseCall EXCEPT !.props.elevation = 3000],
      [BaseCall EXCEPT !.props.form = "bubble"],
      [BaseCall EXCEPT !.props.type = "void"],
      [BaseCall EXCEPT !.quality = "low"],
      [BaseCall EXCEPT !.useCache = FALSE],
      [BaseCall EXCEPT !.adaptive = TRUE, !.props.form = "bubble"] }

\* ------------------------------------------------------------------ worker script

Max(a, b) == IF a >= b THEN a ELSE b

DistSq(p, q) == (p[1] - q[1]) * (p[1] - q[1]) + (p[2] - q[2]) * (p[2] - q[2])

\* points.map(p => new Vector2(p[0]*scaleFactor - offset.x, -(p[1]*scaleFactor - offset.z)))
RawPoints(points, scaleFactor, offset) ==
    [i \in 1..Len(points) |->
        << points[i][1] * scaleFactor - offset.x,
           0 - (points[i][2] * scaleFactor - offset.z) >>]

RECURSIVE FilterIdx(_, _, _)
\* s.filter((p, i) => keep(i)), i the 0-based index of s[k]
FilterIdx(s, keep, k) ==
    IF k > Len(s) THEN <<>>
    ELSE (IF (k - 1) \in keep THEN <<s[k]>> ELSE <<>>) \o FilterIdx(s, keep, k + 1)

SimplifiedPoints(raw) ==
    IF Len(raw) > DensityLimit
    THEN FilterIdx(raw, {i \in 0..(Len(raw) - 1) : i % 2 = 0 \/ i = Len(raw) - 1}, 1)
    ELSE raw

EnsureClosure(s) ==
    IF Len(s) > 0 /\ DistSq(s[1], s[Len(s)]) > ClosureTol * ClosureTol
    THEN Append(s, s[1])
    ELSE s

IsOrganic(form) == form \in {"rounded", "pillow", "bubble"}

QMult(quality) == IF quality = "high" THEN 2 ELSE 1

EffectiveHeight(height) == IF height > 0 THEN height ELSE DefaultDepth

BevelEnabled(form, type) == IsOrganic(form) \/ type = "void"

\* a bevel of 0.02 whatever the form
BevelThicknessFlat(u, form, h) == 20 * u

\* form === 'pillow' || form === 'bubble' ? h * 0.3 : 0.02, lengths counted in
\* units of which u make a thousandth
BevelThicknessAt(u, form, h) ==
    IF form \in {"pillow", "bubble"} THEN (h * 3) \div 10 ELSE 20 * u

BevelThickness(form, h) == BevelThicknessAt(1, form, h)

\* the extrude settings, lengths (height included) counted in units of which u
\* make a thousandth
ExtrudeSettingsAt(u, form, type, height, quality) ==
    LET h == IF height > 0 THEN height ELSE DefaultDepth * u
        bevel == BevelEnabled(form, type)
        bt == BevelThicknessAt(u, form, h)
    IN  [depth |-> IF bevel /\ form \in {"pillow", "bubble"}
                   THEN Max(u, h - bt * 2) ELSE h,
         curveSegments |-> 12 * QMult(quality),
         steps |-> IF form = "bubble" THEN 3 ELSE 1,
         bevelEnabled |-> bevel,
         bevelThickness |-> IF bevel THEN bt ELSE 0,
         bevelSegments |-> IF ~bevel THEN 0
                           ELSE IF form = "bubble" THEN 12
                           ELSE IF form = "pillow" THEN 8 ELSE 2]

\* the extrude settings in thousandths
ExtrudeSettings(form, type, height, quality) ==
    ExtrudeSettingsAt(1, form, type, height, quality)

MorphIntensity(form) ==
    IF form = "bubble" THEN 1500 ELSE IF form = "pillow" THEN 800 ELSE 0

\* a gate that does not look at the quality
SubdividesAnyQuality(form, quality, adaptive) == adaptive /\ IsOrganic(form)

Subdivides(form, quality, adaptive) == adaptive /\ IsOrganic(form) /\ quality = "high"

\* THREE.ExtrudeGeometry drops a closing point that repeats the first
Contour(outline) ==
    IF Len(outline) > 1 /\ outline[1] = outline[Len(outline)]
    THEN SubSeq(outline, 1, Len(outline) - 1)
    ELSE outline

\* new THREE.ExtrudeGeometry(shape, settings), a triangle soup: the two caps and
\* the side walls of the prism over the contour.  (The library adds the bevel
\* and curve segments' triangles to these; they are not modelled.)
\* the prism of the given depth over contour c
Prism(c, depth) ==
    LET n == Len(c)
        P(i, z) == <<c[i][1], c[i][2], z>>
        cap(z) == [i \in 1..(n - 2) |-> <<P(1, z), P(i + 1, z), P(i + 2, z)>>]
        wall(k) ==
            LET i == (k + 1) \div 2
                j == (i % n) + 1
            IN  IF k % 2 = 1
                THEN <<P(i, 0), P(j, 0), P(j, depth)>>
                ELSE <<P(i, 0), P(j, depth), P(i, depth)>>
    IN  cap(0) \o cap(depth) \o [k \in 1..(2 * n) |-> wall(k)]

\* (the contour and the depth are bound as values, so that they are computed once)
ExtrudeTriangles(outline, depth) ==
    CHOOSE tris \in {Prism(c, d) : c \in {Contour(outline)}, d \in {depth}} : TRUE

Dist3Sq(p, q) ==
    (p[1] - q[1]) * (p[1] - q[1]) + (p[2] - q[2]) * (p[2] - q[2])
      + (p[3] - q[3]) * (p[3] - q[3])

\* addVectors(p, q).multiplyScalar(0.5)
Mid(p, q) == <<(p[1] + q[1]) \div 2, (p[2] + q[2]) \div 2, (p[3] + q[3]) \div 2>>

\* edge1 > maxEdgeLength || edge2 > maxEdgeLength || edge3 > maxEdgeLength
OverEdge(t, maxEdgeLength) ==
    \/ Dist3Sq(t[1], t[2]) > maxEdgeLength * maxEdgeLength
    \/ Dist3Sq(t[2], t[3]) > maxEdgeLength * maxEdgeLength
    \/ Dist3Sq(t[3], t[1]) > maxEdgeLength * maxEdgeLength

\* the 4 triangles that replace triangle <<v1, v2, v3>>
Split(v1, v2, v3) ==
    << <<v1, Mid(v1, v2), Mid(v3, v1)>>,
       <<Mid(v1, v2), v2, Mid(v2, v3)>>,
       <<Mid(v3, v1), Mid(v2, v3), v3>>,
       <<Mid(v1, v2), Mid(v2, v3), Mid(v3, v1)>> >>

\* the triangles pushed to newPositions for triangle t
Subdivided(t, maxEdgeLength) ==
    IF OverEdge(t, maxEdgeLength) THEN Split(t[1], t[2], t[3]) ELSE <<t>>

RECURSIVE Flatten(_, _)
\* the concatenation of the sequences ss[k], ss[k+1], ...
Flatten(ss, k) == IF k > Len(ss) THEN <<>> ELSE ss[k] \o Flatten(ss, k + 1)

\* newPositions: the triangles pushed for each triangle of tris, in order
NewPositions(tris, maxEdgeLength) ==
    CHOOSE new \in {Flatten(pushed, 1) :
                       pushed \in {[k \in 1..Len(tris) |-> Subdivided(tris[k], maxEdgeLength)]}} :
        TRUE

\* if (newPositions.length > positions.length) the position attribute is replaced
Replaced(tris, new) == IF Len(new) > Len(tris) THEN new ELSE tris

\* subdivideAdaptive: the triangles of the position attribute after it
\* (the triangles are bound as values, so that they are computed once)
SubdivideAdaptive(geo, maxEdgeLength) ==
    CHOOSE r \in {Replaced(tris, new) :
                     tris \in {t \in {geo} : TRUE},
                     new \in {NewPositions(t, maxEdgeLength) : t \in {geo}}} : TRUE

\* the triangles of the geometry the worker extrudes for message m
\* the outline of the shape the worker extrudes for message m
WorkerOutline(m) ==
    CHOOSE outline \in
        {EnsureClosure(simplified) :
            simplified \in {SimplifiedPoints(raw) :
                               raw \in {RawPoints(m.points, m.scaleFactor, m.offset)}}} : TRUE

WorkerExtrusion(m, outline) ==
    ExtrudeTriangles(outline, ExtrudeSettings(m.form, m.type, m.height, m.quality).depth)

\* if (adaptive && isOrganic && quality === 'high') geo = subdivideAdaptive(geo, 0.3)
WorkerSubdivision(m, geo) ==
    IF Subdivides(m.form, m.quality, m.adaptive)
    THEN SubdivideAdaptive(geo, SubdivideEdge)
    ELSE geo

\* the position attribute the worker packs for a message of at least 3 points,
\* geo the triangles extruded over outline: 9 floats a triangle, after the subdivision when it runs
WorkerPosition(m, outline, geo) ==
    [kind |-> "extrude",
     length |-> 9 * Len(WorkerSubdivision(m, geo)),
     outline |-> outline,
     tension |-> IF m.form = "rounded" THEN 200
                 ELSE IF m.form = "pillow" THEN 500
                 ELSE IF m.form = "bubble" THEN 700 ELSE 0,
     settings |-> ExtrudeSettings(m.form, m.type, m.height, m.quality),
     morph |-> MorphIntensity(m.form),
     subdivided |-> Subdivides(m.form, m.quality, m.adaptive),
     elevation |-> m.elevation]

\* the normal attribute: the one ExtrudeGeometry made, 3 floats a vertex, which
\* computeVertexNormals of optimizeGeometry refills and does not resize
WorkerNormal(geo) == [kind |-> "vertexNormals", length |-> 9 * Len(geo)]

\* the uv attribute: the one ExtrudeGeometry made, 2 floats a vertex
WorkerUv(geo) == [kind |-> "extrude", length |-> 6 * Len(geo)]

\* self.onmessage: the response posted for message m
WorkerResponse(m) ==
    IF Len(m.points) < 3
    THEN [id |-> m.id, success |-> FALSE,
          data |-> [position |-> NoPosition, normal |-> NoAttribute, uv |-> NoAttribute,
                    index |-> "none", tangent |-> "none"],
          error |-> "Invalid points"]
    ELSE CHOOSE response \in
             {[id |-> m.id, success |-> TRUE,
               data |-> [position |-> WorkerPosition(m, lg[1], lg[2]),
                         normal |-> WorkerNormal(lg[2]),
                         uv |-> WorkerUv(lg[2]),
                         index |-> "none", tangent |-> "none"],
               error |-> ""] :
                 lg \in {<<outline, WorkerExtrusion(m, outline)>> :
                            outline \in {WorkerOutline(m)}}} : TRUE

\* ------------------------------------------------------------------ engine state

VARIABLES
    worker,         \* this.worker is not null
    callbacks,      \* keys of this.callbacks: the correlation ids awaiting a response
    timers,         \* correlation ids whose setTimeout is armed (neither fired nor cleared)
    req,            \* req[i]: the arguments of the i-th requestGeometry call
    promise,        \* promise[i]: the promise the i-th call returned
    toWorker,       \* messages posted to the worker, not yet handled by it
    fromWorker,     \* responses posted by the worker, not yet handled by worker.onmessage
    geometryCache,  \* this.geometryCache, in insertion order (a JS Map)
    heap,           \* the BufferGeometry instances allocated so far
    instancedMeshes,\* this.instancedMeshes: the registered meshes, by id
    lods,           \* lods[k]: the promises array of the k-th generateLODs call
    part,           \* an ArchitecturalPart component: its state, ref and effects
    calc,           \* one run of the worker script on one message, on its own
    refine,         \* one call of generateBIMDataWithRefinement
    store           \* the AppState held by useStore

\* what lies outside the engine
otherVars == <<part, calc, refine, store>>

vars ==
    <<worker, callbacks, timers, req, promise, toWorker, fromWorker, geometryCache, heap,
      instancedMeshes, lods, part, calc, refine, store>>

\* no ArchitecturalPart has been rendered: useState(null), useRef(true)
NoPart ==
    [alive |-> FALSE, mounted |-> TRUE, el |-> <<>>, geometry |-> 0, proxy |-> 0,
     awaiting |-> {}, latest |-> 0]

\* new THREE.BufferGeometry()
EmptyGeometry ==
    [position |-> NoPosition, normal |-> NoAttribute, uv |-> NoAttribute,
     index |-> "none", tangent |-> "none"]

\* the callback of requestGeometry: the geometry built from a success response's data
GeometryFromData(data) ==
    [position |-> data.position, normal |-> data.normal, uv |-> data.uv,
     index |-> IF data.index # "none" THEN data.index ELSE "none",
     tangent |-> IF data.tangent # "none" THEN data.tangent ELSE "none"]

\* the triangles of the geometry generateProxy extrudes
ProxyExtrusion(props) ==
    ExtrudeTriangles(RawPoints(props.points, props.scaleFactor, props.offset),
                     EffectiveHeight(props.height))

GenerateProxy(props) ==
    IF Len(props.points) < 3 THEN EmptyGeometry
    ELSE [position |->
             [kind |-> "extrude",
              length |-> 9 * Len(ProxyExtrusion(props)),
              outline |-> RawPoints(props.points, props.scaleFactor, props.offset),
              tension |-> 0,
              settings |-> [depth |-> EffectiveHeight(props.height), curveSegments |-> 12,
                            steps |-> 1, bevelEnabled |-> FALSE, bevelThickness |-> 0,
                            bevelSegments |-> 0],
              morph |-> 0,
              subdivided |-> FALSE,
              elevation |-> props.elevation],
          normal |-> [kind |-> "vertexNormals", length |-> 9 * Len(ProxyExtrusion(props))],
          uv |-> [kind |-> "extrude", length |-> 6 * Len(ProxyExtrusion(props))],
          index |-> "none", tangent |-> "none"]

\* the message requestGeometry posts: { id: requestId, quality, adaptive, ...props }
Message(rid, c) ==
    [id |-> rid, quality |-> c.quality, adaptive |-> c.adaptive,
     points |-> c.props.points, form |-> c.props.form, type |-> c.props.type,
     height |-> c.props.height, elevation |-> c.props.elevation,
     offset |-> c.props.offset, scaleFactor |-> c.props.scaleFactor]

GetCacheKey(props, quality) ==
    <<props.id, props.form, props.height, quality, props.points>>

CacheKeys(cache) == {cache[i].key : i \in 1..Len(cache)}

\* Map.get: the index of the entry of the key, 0 when absent
CacheIndex(cache, key) ==
    IF key \in CacheKeys(cache)
    THEN CHOOSE i \in 1..Len(cache) : cache[i].key = key
    ELSE 0

\* a set that appends an entry whether or not the key is there
CacheSetAppend(cache, key, geo) == Append(cache, [key |-> key, geo |-> geo])

\* Map.set: an absent key is appended, a present key keeps its place
CacheSet(cache, key, geo) ==
    IF key \in CacheKeys(cache)
    THEN [cache EXCEPT ![CacheIndex(cache, key)].geo = geo]
    ELSE Append(cache, [key |-> key, geo |-> geo])

\* a cache that lets one entry too many in before it evicts
ManageCacheSizeLate(cache) ==
    IF Len(cache) > maxCacheSize + 1 THEN Tail(cache) ELSE cache

\* manageCacheSize: the cache after it
ManageCacheSize(cache) ==
    IF Len(cache) > maxCacheSize THEN Tail(cache) ELSE cache

\* the instances manageCacheSize disposes
Evicted(cache) ==
    IF Len(cache) > maxCacheSize THEN {cache[1].geo} ELSE {}

Alloc(h, geo) == Append(h, [geo |-> geo, disposed |-> FALSE])

DisposeAll(h, objs) ==
    [i \in 1..Len(h) |-> IF i \in objs THEN [h[i] EXCEPT !.disposed = TRUE] ELSE h[i]]

Pending == [state |-> "pending", value |-> 0, reason |-> "", via |-> ""]

\* resolve(value): a promise settles once
Resolve(p, value, via) ==
    IF p.state = "pending"
    THEN [state |-> "resolved", value |-> value, reason |-> "", via |-> via]
    ELSE p

\* reject(reason)
Reject(p, reason, via) ==
    IF p.state = "pending"
    THEN [state |-> "rejected", value |-> 0, reason |-> reason, via |-> via]
    ELSE p

Init ==
    /\ worker \in BOOLEAN
    /\ callbacks = {}
    /\ timers = {}
    /\ req = <<>>
    /\ promise = <<>>
    /\ toWorker = <<>>
    /\ fromWorker = <<>>
    /\ geometryCache = <<>>
    /\ heap = <<>>
    /\ instancedMeshes = {}
    /\ lods = <<>>
    /\ part = NoPart
    /\ calc = <<>>
    /\ refine = <<>>
    /\ store = <<>>

\* ------------------------------------------------------------------ requestGeometry

\* a lookup that never finds the fingerprint
CacheHitOfNever(c) == 0

\* a lookup that reads the cache whatever useCache says
CacheHitOfIgnoresFlag(c) == CacheIndex(geometryCache, GetCacheKey(c.props, c.quality))

CacheHitOf(c) ==
    IF c.useCache THEN CacheIndex(geometryCache, GetCacheKey(c.props, c.quality)) ELSE 0

\* a cache hit that hands out the stored instance itself
RequestCacheHitShared(c) ==
    /\ Len(req) < MaxRequests
    /\ CacheHitOf(c) # 0
    /\ req' = Append(req, c)
    /\ promise' = Append(promise, Resolve(Pending, geometryCache[CacheHitOf(c)].geo, "cache"))
    /\ UNCHANGED <<otherVars, instancedMeshes, lods, worker, callbacks, timers, toWorker, fromWorker, geometryCache, heap>>

\* a cache hit that moves the entry to the most recent place (access order)
RequestCacheHitTouch(c) ==
    /\ Len(req) < MaxRequests
    /\ CacheHitOf(c) # 0
    /\ heap' = Alloc(heap, heap[geometryCache[CacheHitOf(c)].geo].geo)
    /\ req' = Append(req, c)
    /\ promise' = Append(promise, Resolve(Pending, Len(heap) + 1, "cache"))
    /\ geometryCache' =
          SubSeq(geometryCache, 1, CacheHitOf(c) - 1)
             \o SubSeq(geometryCache, CacheHitOf(c) + 1, Len(geometryCache))
             \o <<geometryCache[CacheHitOf(c)]>>
    /\ UNCHANGED <<otherVars, instancedMeshes, lods, worker, callbacks, timers, toWorker, fromWorker>>

\* the cache holds the fingerprint: resolve(cached.clone())
RequestCacheHit(c) ==
    /\ Len(req) < MaxRequests
    /\ CacheHitOf(c) # 0
    /\ heap' = Alloc(heap, heap[geometryCache[CacheHitOf(c)].geo].geo)
    /\ req' = Append(req, c)
    /\ promise' = Append(promise, Resolve(Pending, Len(heap) + 1, "cache"))
    /\ UNCHANGED <<otherVars, instancedMeshes, lods, worker, callbacks, timers, toWorker, fromWorker, geometryCache>>

\* a fallback that arms the timer and registers the callback before it looks
\* for the worker
RequestFallbackArmed(c) ==
    /\ Len(req) < MaxRequests
    /\ CacheHitOf(c) = 0
    /\ ~worker
    /\ heap' = Alloc(heap, GenerateProxy(c.props))
    /\ req' = Append(req, c)
    /\ promise' = Append(promise, Resolve(Pending, Len(heap) + 1, "proxy"))
    /\ timers' = timers \cup {Len(req) + 1}
    /\ callbacks' = callbacks \cup {Len(req) + 1}
    /\ UNCHANGED <<otherVars, instancedMeshes, lods, worker, toWorker, fromWorker, geometryCache>>

\* a fallback that stores the proxy in the cache
RequestFallbackCaches(c) ==
    /\ Len(req) < MaxRequests
    /\ CacheHitOf(c) = 0
    /\ ~worker
    /\ heap' = Alloc(Alloc(heap, GenerateProxy(c.props)), GenerateProxy(c.props))
    /\ req' = Append(req, c)
    /\ promise' = Append(promise, Resolve(Pending, Len(heap) + 1, "proxy"))
    /\ geometryCache' =
          IF c.useCache
          THEN CacheSet(geometryCache, GetCacheKey(c.props, c.quality), Len(heap) + 2)
          ELSE geometryCache
    /\ UNCHANGED <<otherVars, instancedMeshes, lods, worker, callbacks, timers, toWorker, fromWorker>>

\* no worker: resolve(this.generateProxy(props))
RequestFallback(c) ==
    /\ Len(req) < MaxRequests
    /\ CacheHitOf(c) = 0
    /\ ~worker
    /\ heap' = Alloc(heap, GenerateProxy(c.props))
    /\ req' = Append(req, c)
    /\ promise' = Append(promise, Resolve(Pending, Len(heap) + 1, "proxy"))
    /\ UNCHANGED <<otherVars, instancedMeshes, lods, worker, callbacks, timers, toWorker, fromWorker, geometryCache>>

\* arm the timer, register the callback, post the message
RequestDispatch(c) ==
    /\ Len(req) < MaxRequests
    /\ CacheHitOf(c) = 0
    /\ worker
    /\ req' = Append(req, c)
    /\ promise' = Append(promise, Pending)
    /\ timers' = timers \cup {Len(req) + 1}
    /\ callbacks' = callbacks \cup {Len(req) + 1}
    /\ toWorker' = Append(toWorker, Message(Len(req) + 1, c))
    /\ UNCHANGED <<otherVars, instancedMeshes, lods, worker, fromWorker, geometryCache, heap>>

RequestGeometry(c) ==
    \/ RequestCacheHit(c)
    \/ RequestFallback(c)
    \/ RequestDispatch(c)

\* ------------------------------------------------------------------ worker

\* a worker that returns from an invalid message without posting anything
WorkerStepDropsInvalid ==
    /\ worker
    /\ toWorker # <<>>
    /\ toWorker' = Tail(toWorker)
    /\ UNCHANGED <<otherVars, instancedMeshes, lods, worker, callbacks, timers, req, promise, geometryCache,
                   heap>>
    /\ fromWorker' = IF Len(Head(toWorker).points) < 3
                     THEN fromWorker
                     ELSE Append(fromWorker, WorkerResponse(Head(toWorker)))

\* the worker handles its oldest message and posts the response
WorkerStep ==
    /\ worker
    /\ toWorker # <<>>
    /\ toWorker' = Tail(toWorker)
    /\ UNCHANGED <<otherVars, instancedMeshes, lods, worker, callbacks, timers, req, promise, geometryCache,
                   heap>>
    /\ fromWorker' = Append(fromWorker, WorkerResponse(Head(toWorker)))

\* a lookup that takes the oldest pending callback, whatever the id
LookupOldestCallback(id) ==
    IF callbacks # {} THEN CHOOSE r \in callbacks : \A t \in callbacks : r <= t ELSE 0

\* this.callbacks.get(id): the id whose callback runs, 0 when there is none
LookupCallback(id) == IF id \in callbacks THEN id ELSE 0

\* the callback registered by call rid, run on data
RunCallback(rid, data) ==
    LET c == req[rid]
        key == GetCacheKey(c.props, c.quality)
        geometry == Len(heap) + 1
        h1 == Alloc(heap, GeometryFromData(data))
        set == CacheSet(geometryCache, key, Len(h1) + 1)
    IN  /\ timers' = timers \ {rid}
        /\ IF c.useCache
           THEN /\ heap' = DisposeAll(Alloc(h1, h1[geometry].geo), Evicted(set))
                /\ geometryCache' = ManageCacheSize(set)
           ELSE /\ heap' = h1
                /\ geometryCache' = geometryCache
        /\ promise' = [promise EXCEPT ![rid] = Resolve(@, geometry, "worker")]

\* a handler that runs the callback and leaves it in the table
OnMessageKeepsEntry ==
    /\ fromWorker # <<>>
    /\ LET e == Head(fromWorker)
           cb == LookupCallback(e.id)
       IN  /\ fromWorker' = Tail(fromWorker)
           /\ IF cb # 0 /\ e.success
              THEN RunCallback(cb, e.data)
              ELSE UNCHANGED <<timers, promise, geometryCache, heap>>
    /\ UNCHANGED <<otherVars, instancedMeshes, lods, worker, req, toWorker, callbacks>>

\* worker.onmessage
OnMessage ==
    /\ fromWorker # <<>>
    /\ LET e == Head(fromWorker)
           cb == LookupCallback(e.id)
       IN  /\ fromWorker' = Tail(fromWorker)
           /\ IF cb # 0
              THEN /\ IF e.success
                      THEN RunCallback(cb, e.data)
                      ELSE UNCHANGED <<timers, promise, geometryCache, heap>>
                   /\ callbacks' = callbacks \ {e.id}
              ELSE UNCHANGED <<callbacks, timers, promise, geometryCache, heap>>
    /\ UNCHANGED <<otherVars, instancedMeshes, lods, worker, req, toWorker>>

\* a timeout that rejects and leaves the pending entry in the table
TimeoutKeepsEntry(rid) ==
    /\ rid \in timers
    /\ \A t \in timers : rid <= t
    /\ timers' = timers \ {rid}
    /\ IF rid \in callbacks
       THEN /\ callbacks' = callbacks
            /\ promise' = [promise EXCEPT ![rid] = Reject(@, "Worker timeout", "timeout")]
       ELSE UNCHANGED <<callbacks, promise>>
    /\ UNCHANGED <<otherVars, instancedMeshes, lods, worker, req, toWorker, fromWorker, geometryCache, heap>>

\* a timeout that removes the pending entry and settles nothing
TimeoutSilent(rid) ==
    /\ rid \in timers
    /\ \A t \in timers : rid <= t
    /\ timers' = timers \ {rid}
    /\ callbacks' = callbacks \ {rid}
    /\ UNCHANGED <<otherVars, instancedMeshes, lods, worker, req, promise, toWorker, fromWorker, geometryCache, heap>>

\* a timeout that rejects its request and drops every pending entry
TimeoutClearsAll(rid) ==
    /\ rid \in timers
    /\ \A t \in timers : rid <= t
    /\ timers' = timers \ {rid}
    /\ IF rid \in callbacks
       THEN /\ callbacks' = {}
            /\ promise' = [promise EXCEPT ![rid] = Reject(@, "Worker timeout", "timeout")]
       ELSE UNCHANGED <<callbacks, promise>>
    /\ UNCHANGED <<otherVars, instancedMeshes, lods, worker, req, toWorker, fromWorker, geometryCache, heap>>

\* the setTimeout callback of call rid; equal delays fire in the order they were set
Timeout(rid) ==
    /\ rid \in timers
    /\ \A t \in timers : rid <= t
    /\ timers' = timers \ {rid}
    /\ IF rid \in callbacks
       THEN /\ callbacks' = callbacks \ {rid}
            /\ promise' = [promise EXCEPT ![rid] = Reject(@, "Worker timeout", "timeout")]
       ELSE UNCHANGED <<callbacks, promise>>
    /\ UNCHANGED <<otherVars, instancedMeshes, lods, worker, req, toWorker, fromWorker, geometryCache, heap>>

\* ------------------------------------------------------------------ disposal

CachedGeos == {geometryCache[i].geo : i \in 1..Len(geometryCache)}

\* the geometries of the registered instanced meshes
MeshGeos == {m.geometry : m \in instancedMeshes}

\* a clearCache that forgets the registry is there
ClearCacheOnly ==
    /\ heap' = DisposeAll(heap, CachedGeos)
    /\ geometryCache' = <<>>
    /\ UNCHANGED <<otherVars, instancedMeshes, lods, worker, callbacks, timers, req, promise, toWorker,
                   fromWorker>>

ClearCache ==
    /\ heap' = DisposeAll(heap, CachedGeos \cup MeshGeos)
    /\ geometryCache' = <<>>
    /\ instancedMeshes' = {}
    /\ UNCHANGED <<otherVars, lods, worker, callbacks, timers, req, promise, toWorker, fromWorker>>

\* a dispose that terminates the worker without looking whether there is one:
\* it fails when there is none
DisposeUnchecked ==
    /\ worker
    /\ heap' = DisposeAll(heap, CachedGeos \cup MeshGeos)
    /\ geometryCache' = <<>>
    /\ instancedMeshes' = {}
    /\ worker' = FALSE
    /\ toWorker' = <<>>
    /\ fromWorker' = <<>>
    /\ UNCHANGED <<otherVars, lods, callbacks, timers, req, promise>>

\* clearCache(), worker.terminate(): the terminated worker handles no further
\* message and the messages it posted that were not yet dispatched are discarded
Dispose ==
    /\ heap' = DisposeAll(heap, CachedGeos \cup MeshGeos)
    /\ geometryCache' = <<>>
    /\ instancedMeshes' = {}
    /\ worker' = FALSE
    /\ toWorker' = <<>>
    /\ fromWorker' = <<>>
    /\ UNCHANGED <<otherVars, lods, callbacks, timers, req, promise>>

Next ==
    \/ \E c \in Calls : RequestGeometry(c)
    \/ WorkerStep
    \/ OnMessage
    \/ \E rid \in timers : Timeout(rid)
    \/ ClearCache
    \/ Dispose

Spec == Init /\ [][Next]_vars

\* a caller changes the vertex data of a mesh it was handed and releases it
CallerMutate(rid) ==
    /\ promise[rid].state = "resolved"
    /\ ~heap[promise[rid].value].disposed
    /\ heap' = [heap EXCEPT ![promise[rid].value] =
                   [geo |-> [@.geo EXCEPT !.position = [kind |-> "mutated", length |-> 0]],
                    disposed |-> TRUE]]
    /\ UNCHANGED <<otherVars, instancedMeshes, lods, worker, callbacks, timers, req, promise, toWorker, fromWorker,
                   geometryCache>>

NextOwn ==
    \/ Next
    \/ \E rid \in 1..Len(req) : CallerMutate(rid)

\* the engine together with callers that mutate and release what they were handed
SpecOwn == Init /\ [][NextOwn]_vars

\* the ids callers register instanced meshes under
MeshIds == {"columns"}

\* createInstancedMesh(geometry, material, count, id): the mesh registered under
\* id is returned when there is one, and a new one is registered otherwise
CreateInstancedMesh(geometry, id) ==
    /\ instancedMeshes' =
          IF \E m \in instancedMeshes : m.id = id
          THEN instancedMeshes
          ELSE instancedMeshes \cup {[id |-> id, geometry |-> geometry]}
    /\ UNCHANGED <<otherVars, worker, callbacks, timers, req, promise, toWorker, fromWorker,
                   geometryCache, heap, lods>>

\* the geometries callers hold: the meshes their requests resolved to
Held == {promise[rid].value : rid \in {r \in 1..Len(req) : promise[r].state = "resolved"}}

NextMesh ==
    \/ Next
    \/ \E geometry \in Held, id \in MeshIds : CreateInstancedMesh(geometry, id)

\* the engine together with callers that register instanced meshes
SpecMesh == Init /\ [][NextMesh]_vars

\* ------------------------------------------------------------------ generateLODs

\* levels: number = 3
DefaultLevels == 3

\* a footprint of 40 points, and one that differs from it in its second point
Footprint40 == [i \in 1..40 |-> <<10 * (i - 1), (i - 1) * (40 - i)>>]
Footprint40b == [Footprint40 EXCEPT ![2] = <<10, 40>>]

LodProps ==
    { [BaseProps EXCEPT !.points = Footprint40],
      [BaseProps EXCEPT !.points = Footprint40b] }

\* a decimation that keeps the stride points only
SimplifyPointsNoLast(points, i) ==
    IF i = 0 THEN points
    ELSE FilterIdx(points, {k \in 0..(Len(points) - 1) : k % (2 ^ i) = 0}, 1)

\* simplifyPoints(points, Math.pow(0.5, i)): step = Math.ceil(1 / factor) = 2^i
SimplifyPoints(points, i) ==
    IF i = 0 THEN points
    ELSE FilterIdx(points,
                   {k \in 0..(Len(points) - 1) : k % (2 ^ i) = 0 \/ k = Len(points) - 1}, 1)

\* a level request that asks for high quality at every level
LodCallAllHigh(props, i) ==
    [props |-> [props EXCEPT !.points = SimplifyPoints(props.points, i)],
     quality |-> "high", useCache |-> TRUE, adaptive |-> FALSE]

\* the arguments of the requestGeometry call of level i
LodCall(props, i) ==
    [props |-> [props EXCEPT !.points = SimplifyPoints(props.points, i)],
     quality |-> IF i = 0 THEN "high" ELSE "low", useCache |-> TRUE, adaptive |-> FALSE]

\* requestGeometry(c) run inside a caller's loop: s holds what the calls made so
\* far in the loop have changed
RequestGeometryIn(s, c) ==
    LET rid == Len(s.req) + 1
        hit == CacheHitOf(c)
    IN  IF hit # 0
        THEN [s EXCEPT !.req = Append(@, c),
                       !.heap = Alloc(@, s.heap[geometryCache[hit].geo].geo),
                       !.promise = Append(@, Resolve(Pending, Len(s.heap) + 1, "cache"))]
        ELSE IF ~worker
        THEN [s EXCEPT !.req = Append(@, c),
                       !.heap = Alloc(@, GenerateProxy(c.props)),
                       !.promise = Append(@, Resolve(Pending, Len(s.heap) + 1, "proxy"))]
        ELSE [s EXCEPT !.req = Append(@, c),
                       !.promise = Append(@, Pending),
                       !.timers = @ \cup {rid},
                       !.callbacks = @ \cup {rid},
                       !.toWorker = Append(@, Message(rid, c))]

RECURSIVE LodLoop(_, _, _, _)
\* for (let i = 0; i < levels; i++) promises.push(this.requestGeometry(...))
LodLoop(s, props, levels, i) ==
    IF i >= levels THEN s
    ELSE LodLoop(RequestGeometryIn(s, LodCall(props, i)), props, levels, i + 1)

\* generateLODs(props, levels): one synchronous pass
GenerateLODs(props, levels) ==
    /\ Len(lods) < MaxLodCalls
    /\ LET s == LodLoop([req |-> req, promise |-> promise, timers |-> timers,
                         callbacks |-> callbacks, toWorker |-> toWorker, heap |-> heap],
                        props, levels, 0)
       IN  /\ req' = s.req
           /\ promise' = s.promise
           /\ timers' = s.timers
           /\ callbacks' = s.callbacks
           /\ toWorker' = s.toWorker
           /\ heap' = s.heap
    /\ lods' = Append(lods, [i \in 1..levels |-> Len(req) + i])
    /\ UNCHANGED <<otherVars, worker, fromWorker, geometryCache, instancedMeshes>>

\* a combinator that resolves as soon as one level has, with the levels resolved
LodPromiseAny(k) ==
    LET ps == lods[k]
        done == {i \in 1..Len(ps) : promise[ps[i]].state = "resolved"}
    IN  IF done # {}
        THEN [state |-> "resolved",
              value |-> [i \in 1..Len(ps) |->
                            IF i \in done THEN promise[ps[i]].value ELSE 0],
              reason |-> ""]
        ELSE [state |-> "pending", value |-> <<>>, reason |-> ""]

\* Promise.all(promises) of the k-th generateLODs call: rejected with the reason
\* of the first promise to reject, resolved with the values in array order
LodPromise(k) ==
    LET ps == lods[k]
        failed == {i \in 1..Len(ps) : promise[ps[i]].state = "rejected"}
    IN  IF failed # {}
        THEN [state |-> "rejected", value |-> <<>>,
              reason |-> promise[ps[CHOOSE i \in failed : \A j \in failed : i <= j]].reason]
        ELSE IF \A i \in 1..Len(ps) : promise[ps[i]].state = "resolved"
        THEN [state |-> "resolved", value |-> [i \in 1..Len(ps) |-> promise[ps[i]].value],
              reason |-> ""]
        ELSE [state |-> "pending", value |-> <<>>, reason |-> ""]

NextLOD ==
    \/ \E props \in LodProps, levels \in 1..DefaultLevels : GenerateLODs(props, levels)
    \/ WorkerStep
    \/ OnMessage
    \/ \E rid \in timers : Timeout(rid)
    \/ ClearCache
    \/ Dispose

\* the cache after generateLODs(props, levels) resolved and nothing else was cached
LodCache(props, levels) ==
    [i \in 1..levels |->
        [key |-> GetCacheKey(LodCall(props, i - 1).props, LodCall(props, i - 1).quality),
         geo |-> i]]

LodHeap(props, levels) ==
    [i \in 1..levels |->
        [geo |-> GeometryFromData(WorkerResponse(Message(0, LodCall(props, i - 1))).data),
         disposed |-> FALSE]]

\* a new engine, or one whose worker has generated and cached the default levels
\* of the 40-point footprint; req, promise and lods hold the calls made from there on
InitLOD ==
    /\ callbacks = {}
    /\ timers = {}
    /\ req = <<>>
    /\ promise = <<>>
    /\ toWorker = <<>>
    /\ fromWorker = <<>>
    /\ instancedMeshes = {}
    /\ lods = <<>>
    /\ part = NoPart
    /\ calc = <<>>
    /\ refine = <<>>
    /\ store = <<>>
    /\ \/ /\ worker \in BOOLEAN
          /\ geometryCache = <<>>
          /\ heap = <<>>
       \/ /\ worker = TRUE
          /\ geometryCache = LodCache([BaseProps EXCEPT !.points = Footprint40], DefaultLevels)
          /\ heap = LodHeap([BaseProps EXCEPT !.points = Footprint40], DefaultLevels)

\* the engine used through generateLODs
SpecLOD == InitLOD /\ [][NextLOD]_vars

\* the props of the i-th of the elements that filled the cache: element 1 first
FillProps(i) == IF i = 1 THEN BaseProps ELSE [BaseProps EXCEPT !.id = i + 1]

FillGeometry(i) ==
    GeometryFromData(
        WorkerResponse(Message(0, [BaseCall EXCEPT !.props = FillProps(i)])).data)

\* the engine after maxCacheSize elements were generated and cached; req and
\* promise then hold the calls made from there on
InitFull ==
    /\ worker = TRUE
    /\ callbacks = {}
    /\ timers = {}
    /\ req = <<>>
    /\ promise = <<>>
    /\ toWorker = <<>>
    /\ fromWorker = <<>>
    /\ geometryCache =
          [i \in 1..maxCacheSize |->
              [key |-> GetCacheKey(FillProps(i), "high"), geo |-> i]]
    /\ heap = [i \in 1..maxCacheSize |-> [geo |-> FillGeometry(i), disposed |-> FALSE]]
    /\ instancedMeshes = {}
    /\ lods = <<>>
    /\ part = NoPart
    /\ calc = <<>>
    /\ refine = <<>>
    /\ store = <<>>

SpecFull == InitFull /\ [][Next]_vars

\* the event loop runs every timer that is due and dispatches every message, and
\* a live worker handles every message it has received
SpecFair ==
    /\ Init
    /\ [][Next]_vars
    /\ WF_vars(\E rid \in timers : Timeout(rid))
    /\ WF_vars(WorkerStep)
    /\ WF_vars(OnMessage)

\* ------------------------------------------------------------------ helpers of the claims

\* the calls issued so far
Issued == 1..Len(req)

\* the correlation ids of the messages and responses in flight
InFlight ==
    {toWorker[i].id : i \in 1..Len(toWorker)} \cup {fromWorker[i].id : i \in 1..Len(fromWorker)}

\* the response the worker gives to call rid
ResponseTo(rid) == WorkerResponse(Message(rid, req[rid]))

\* the geometry a fresh generation of call rid yields
FreshGeometry(rid) == GeometryFromData(ResponseTo(rid).data)

\* worker.onmessage is handling an error payload for a request that awaits it
ErrorDelivered ==
    /\ OnMessage
    /\ ~Head(fromWorker).success
    /\ Head(fromWorker).id \in callbacks

\* C1: when the worker answers a dispatched request with an error payload, the
\* promise of that request is rejected and the geometry cache keeps its entries.
C1_ErrorRejects ==
    [][ErrorDelivered =>
          /\ promise'[Head(fromWorker).id].state = "rejected"
          /\ geometryCache' = geometryCache]_vars

\* ------------------------------------------------------------------ C2

\* worker.onmessage is handling a response for a request that timed out
LateDelivered ==
    /\ OnMessage
    /\ Head(fromWorker).id \in Issued
    /\ promise[Head(fromWorker).id].reason = "Worker timeout"

\* C2: when the timer of a request that still awaits its response fires, the
\* pending entry is removed and the promise is rejected with "Worker timeout"; a
\* response for that id handled afterwards changes neither the promises, the
\* pending table nor the geometry cache.
C2_TimeoutDropsLateResponse ==
    [][/\ \A rid \in callbacks :
             Timeout(rid) =>
                /\ rid \notin callbacks'
                /\ promise'[rid].state = "rejected"
                /\ promise'[rid].reason = "Worker timeout"
       /\ LateDelivered => UNCHANGED <<promise, callbacks, geometryCache>>]_vars

\* a request timed out and its response, success or error, was handled afterwards
C2_Witness ==
    \E rid \in Issued :
        /\ promise[rid].reason = "Worker timeout"
        /\ worker
        /\ rid \notin InFlight
        /\ rid \notin callbacks

\* ------------------------------------------------------------------ C3

DistinctPoints(points) == Cardinality({points[i] : i \in 1..Len(points)})

\* C3: a request whose footprint has fewer than 3 distinct points never resolves
\* (it fails with an invalid-geometry error) and its fingerprint is never cached.
C3_FewDistinctPointsFail ==
    \A rid \in Issued :
        DistinctPoints(req[rid].props.points) < 3 =>
            /\ promise[rid].state # "resolved"
            /\ GetCacheKey(req[rid].props, req[rid].quality) \notin CacheKeys(geometryCache)

\* ------------------------------------------------------------------ C4

\* C4: a request that is dispatched and unanswered when dispose() has run is
\* eventually rejected and its pending entry removed.
C4_DisposeSettlesInFlight ==
    \A rid \in 1..MaxRequests :
        (~worker /\ rid \in callbacks)
            ~> (rid \notin callbacks /\ rid \in Issued /\ promise[rid].state = "rejected")

\* dispose() has run while a request was dispatched and unanswered
C4_Witness == ~worker /\ callbacks # {}

\* ------------------------------------------------------------------ C5

\* C5: the geometry a cache hit hands out is the geometry a fresh generation of
\* the requested spec (its elevation, scaleFactor, offset, type and adaptive flag
\* included) produces.
C5_CacheHitEqualsFresh ==
    \A rid \in Issued :
        promise[rid].via = "cache" => heap[promise[rid].value].geo = FreshGeometry(rid)

\* ------------------------------------------------------------------ C6

Resolved(rid) == promise[rid].state = "resolved"

\* C6: every mesh handed out by a call with useCache = true is an instance other
\* than every cached buffer and every other mesh handed out, and no cached buffer
\* is changed or released by what callers do to their meshes.
C6_ReturnedMeshesAreOwned ==
    /\ \A rid \in Issued :
          (req[rid].useCache /\ Resolved(rid)) =>
             /\ promise[rid].value \notin CachedGeos
             /\ \A other \in Issued \ {rid} :
                   Resolved(other) => promise[other].value # promise[rid].value
    /\ \A g \in CachedGeos :
          /\ ~heap[g].disposed
          /\ heap[g].geo.position.kind # "mutated"

\* a cache-miss result and a later cache hit of the same fingerprint, the first
\* mutated and released by its caller, the entry still cached
C6_Witness ==
    \E r1, r2 \in Issued :
        /\ promise[r1].via = "worker"
        /\ promise[r2].via = "cache"
        /\ req[r1].useCache
        /\ GetCacheKey(req[r1].props, req[r1].quality)
              = GetCacheKey(req[r2].props, req[r2].quality)
        /\ heap[promise[r1].value].disposed
        /\ GetCacheKey(req[r1].props, req[r1].quality) \in CacheKeys(geometryCache)

\* ------------------------------------------------------------------ C7

\* worker.onmessage is handling a success response whose callback inserts a
\* fingerprint the full cache does not hold
InsertsIntoFull ==
    /\ OnMessage
    /\ Head(fromWorker).success
    /\ Head(fromWorker).id \in callbacks
    /\ req[Head(fromWorker).id].useCache
    /\ Len(geometryCache) = maxCacheSize
    /\ GetCacheKey(req[Head(fromWorker).id].props, req[Head(fromWorker).id].quality)
          \notin CacheKeys(geometryCache)

\* C7: an insertion of a new fingerprint into the full cache removes exactly the
\* earliest inserted entry, keeps the others in their order, puts the new one
\* last, and a lookup of the evicted fingerprint then misses; a cache hit leaves
\* the cache and its order as they were.
C7_EvictsEarliestInserted ==
    [][/\ InsertsIntoFull =>
             /\ Len(geometryCache') = maxCacheSize
             /\ SubSeq(geometryCache', 1, maxCacheSize - 1) = Tail(geometryCache)
             /\ geometryCache'[maxCacheSize].key =
                   GetCacheKey(req[Head(fromWorker).id].props,
                               req[Head(fromWorker).id].quality)
             /\ CacheIndex(geometryCache', geometryCache[1].key) = 0
       /\ (\E c \in Calls : RequestCacheHit(c)) => geometryCache' = geometryCache]_vars

\* a cache hit on the earliest inserted fingerprint, then an insertion that
\* evicted it
C7_Witness ==
    \E r1, r2 \in Issued :
        /\ r1 < r2
        /\ promise[r1].via = "cache"
        /\ GetCacheKey(req[r1].props, req[r1].quality) = GetCacheKey(FillProps(1), "high")
        /\ promise[r2].via = "worker"
        /\ Len(geometryCache) = maxCacheSize
        /\ geometryCache[maxCacheSize].key = GetCacheKey(req[r2].props, req[r2].quality)
        /\ GetCacheKey(FillProps(1), "high") \notin CacheKeys(geometryCache)

\* ------------------------------------------------------------------ C8

\* C8: the geometry cache never holds more than maxCacheSize entries.
C8_CacheBounded == Len(geometryCache) <= maxCacheSize

\* the cache is full and its latest entry was inserted by a call of this run
C8_Witness ==
    /\ Len(geometryCache) = maxCacheSize
    /\ \E rid \in Issued :
          /\ promise[rid].via = "worker"
          /\ geometryCache[maxCacheSize].geo > promise[rid].value

\* ------------------------------------------------------------------ C9

\* C9: a response settles only the promise of the request with its correlation
\* id, removes only that pending entry, and the cache entry it writes is the one
\* of that request's fingerprint, holding the mesh of that response.
C9_ResponsesMatchedById ==
    [][OnMessage =>
          LET id == Head(fromWorker).id
              key == GetCacheKey(req[id].props, req[id].quality)
          IN  /\ \A rid \in Issued \ {id} :
                    /\ promise'[rid] = promise[rid]
                    /\ (rid \in callbacks') = (rid \in callbacks)
              /\ \A i \in 1..Len(geometryCache') :
                    \/ geometryCache'[i] \in {geometryCache[j] : j \in 1..Len(geometryCache)}
                    \/ /\ geometryCache'[i].key = key
                       /\ heap'[geometryCache'[i].geo].geo
                             = GeometryFromData(Head(fromWorker).data)
                       /\ Head(fromWorker).data = ResponseTo(id).data]_vars

\* two requests in flight together: the earlier timed out, its response was
\* handled while the later one was pending, and the later one resolved
C9_Witness ==
    \E r1, r2 \in Issued :
        /\ r1 < r2
        /\ promise[r1].reason = "Worker timeout"
        /\ promise[r2].via = "worker"
        /\ req[r2].useCache
        /\ worker

\* ------------------------------------------------------------------ C10

\* C10: without a worker, requestGeometry on a cache miss resolves within the
\* call with the proxy mesh; it adds no pending entry, arms no timer and posts
\* no message.
C10_NoWorkerFallsBack ==
    [][\A c \in Calls :
          (~worker /\ CacheHitOf(c) = 0 /\ RequestGeometry(c)) =>
             /\ promise'[Len(req) + 1].state = "resolved"
             /\ heap'[promise'[Len(req) + 1].value].geo = GenerateProxy(c.props)
             /\ UNCHANGED <<callbacks, timers, toWorker>>]_vars

\* a request served by the fallback after dispose() ended a worker that had
\* served an earlier one
C10_Witness ==
    \E r1, r2 \in Issued :
        /\ promise[r1].via = "worker"
        /\ promise[r2].via = "proxy"
        /\ ~worker

\* ------------------------------------------------------------------ C11

\* C11: a request whose footprint has fewer than 3 points is failed before any
\* dispatch: no message is posted, no pending entry and no timer is created.
C11_InvalidFootprintFailsFast ==
    [][\A c \in Calls :
          (Len(c.props.points) < 3 /\ RequestGeometry(c)) =>
             UNCHANGED <<toWorker, callbacks, timers>>]_vars

\* ------------------------------------------------------------------ C12

\* C12: a call with useCache = true whose fingerprint is cached resolves within
\* the call with a new instance holding the stored mesh; it posts no message,
\* adds no pending entry, arms no timer and leaves the cache as it was.
C12_CacheHitDoesNotRecompute ==
    [][\A c \in Calls :
          (/\ c.useCache
           /\ GetCacheKey(c.props, c.quality) \in CacheKeys(geometryCache)
           /\ RequestGeometry(c)) =>
             LET rid == Len(req) + 1
                 stored == geometryCache[CacheIndex(geometryCache,
                                             GetCacheKey(c.props, c.quality))].geo
             IN  /\ promise'[rid].state = "resolved"
                 /\ promise'[rid].value \notin 1..Len(heap)
                 /\ heap'[promise'[rid].value].geo = heap[stored].geo
                 /\ UNCHANGED <<toWorker, fromWorker, callbacks, timers, geometryCache>>]_vars

\* a request completed through the worker, and the identical request made
\* afterwards, with the worker still there, was served from the cache
C12_Witness ==
    \E r1, r2 \in Issued :
        /\ r1 < r2
        /\ req[r1] = req[r2]
        /\ promise[r1].via = "worker"
        /\ promise[r2].via = "cache"
        /\ worker
        /\ InFlight = {}

\* ------------------------------------------------------------------ C14

\* C14: when a request fails, by an error response or by its timeout, the pending
\* entry, timer, promise and arguments of every other request, the messages in
\* flight for them, the cache and the worker are as before.
C14_FailureLeavesOthers ==
    [][\A rid \in callbacks :
          (Timeout(rid) \/ (ErrorDelivered /\ Head(fromWorker).id = rid)) =>
             /\ \A other \in Issued \ {rid} :
                   /\ (other \in callbacks') = (other \in callbacks)
                   /\ (other \in timers') = (other \in timers)
                   /\ promise'[other] = promise[other]
             /\ toWorker' = toWorker
             /\ fromWorker' = (IF ErrorDelivered THEN Tail(fromWorker) ELSE fromWorker)
             /\ UNCHANGED <<req, geometryCache, heap, worker>>]_vars

\* one request failed on an error response, another one is dispatched and
\* awaits its response
C14_Witness ==
    \E r1, r2 \in Issued :
        /\ promise[r1].state = "pending"
        /\ r1 \notin callbacks
        /\ r2 \in callbacks
        /\ r2 \in timers
        /\ r2 \in InFlight
        /\ worker

\* ------------------------------------------------------------------ C20

\* the response for rid is being handled, or its timer is firing
Ends(rid) == Timeout(rid) \/ (OnMessage /\ Head(fromWorker).id = rid)

\* C20: the pending entry of a correlation id is created by its dispatch and by
\* nothing else, removed by the first of its response and its timeout and by
\* nothing else; a settled promise never changes, and a response or a timer
\* that comes after the entry is gone changes no promise and no cache entry.
C20_PendingEntryLifetime ==
    [][\A rid \in 1..MaxRequests :
          /\ (\E c \in Calls : RequestDispatch(c)) => (Len(req) + 1) \in callbacks'
          /\ (rid \notin callbacks /\ rid \in callbacks') =>
                (rid = Len(req) + 1 /\ \E c \in Calls : RequestDispatch(c))
          /\ (rid \in callbacks /\ rid \notin callbacks') => Ends(rid)
          /\ (rid \in callbacks /\ Ends(rid)) => rid \notin callbacks'
          /\ (rid \in Issued /\ promise[rid].state # "pending") =>
                promise'[rid] = promise[rid]
          /\ (rid \in Issued /\ rid \notin callbacks /\ Ends(rid)) =>
                UNCHANGED <<promise, geometryCache, heap>>]_vars

\* the timer of a request fired after its response had removed the entry
C20_Witness ==
    \E rid \in Issued :
        /\ promise[rid].state = "pending"
        /\ rid \notin callbacks
        /\ rid \notin timers

\* ------------------------------------------------------------------ C15

\* C15: the mesh a request with a footprint of at least 3 points resolves to has
\* a position array whose length is a multiple of 3, a normal array of the same
\* length and a uv array for the same number of vertices.
C15_AttributeArraysAgree ==
    \A rid \in Issued :
        (Len(req[rid].props.points) >= 3 /\ promise[rid].state = "resolved") =>
            LET g == heap[promise[rid].value].geo
            IN  /\ g.position.length % 3 = 0
                /\ g.normal.length = g.position.length
                /\ g.uv.length * 3 = g.position.length * 2

\* ------------------------------------------------------------------ C13

\* what dispose() leaves behind
Disposed == geometryCache = <<>> /\ instancedMeshes = {} /\ ~worker

\* C13: dispose() can be called in every state, with or without requests in
\* flight; it leaves the cache empty, the registry empty and the worker absent,
\* and called again in that state it changes nothing.
C13_DisposeIdempotent ==
    /\ [](ENABLED Dispose)
    /\ [][Dispose => (/\ Disposed'
                      /\ UNCHANGED <<callbacks, timers, req, promise>>
                      /\ Disposed => UNCHANGED vars)]_vars

C13_Witness ==
    /\ Disposed
    /\ callbacks # {}
    /\ \E rid \in Issued :
          /\ promise[rid].state = "resolved"
          /\ promise[rid].via = "worker"
          /\ heap[promise[rid].value].disposed

\* ------------------------------------------------------------------ C19

\* C19: clearCache() leaves the cache and the instanced-mesh registry empty, and
\* does not touch the pending entries, the timers or the messages of the requests
\* in flight; a request made while the cache is empty is never a cache hit.
C19_ClearCacheEmptiesBoth ==
    [][/\ ClearCache =>
            /\ geometryCache' = <<>>
            /\ instancedMeshes' = {}
            /\ UNCHANGED <<worker, callbacks, timers, req, promise, toWorker, fromWorker>>
       /\ \A c \in Calls :
            (geometryCache = <<>> /\ RequestGeometry(c)) =>
                promise'[Len(req) + 1].via # "cache"]_vars

C19_Witness ==
    /\ worker
    /\ geometryCache = <<>>
    /\ instancedMeshes = {}
    /\ \E r1, r2 \in Issued :
          /\ promise[r1].state = "resolved"
          /\ heap[promise[r1].value].disposed
          /\ req[r1].useCache
          /\ promise[r2].state = "pending"
          /\ r2 \in callbacks
          /\ r2 \in timers
          /\ GetCacheKey(req[r2].props, req[r2].quality)
                = GetCacheKey(req[r1].props, req[r1].quality)
          /\ promise[r1].via = "worker"

\* ------------------------------------------------------------------ C16

\* the 0-based indices of points that level i keeps: the multiples of 2^i and the
\* final one
KeptAt(points, i) ==
    {k \in 0..(Len(points) - 1) : k % (2 ^ i) = 0 \/ k = Len(points) - 1}

\* q is points restricted to the indices in kept, in their order
RestrictedTo(q, points, kept) ==
    /\ Len(q) = Cardinality(kept)
    /\ \A j \in 1..Len(q) :
          q[j] = points[(CHOOSE k \in kept : Cardinality({m \in kept : m < k}) = j - 1) + 1]

\* generateLODs(props, levels) appends exactly the level requests of the claim
IssuesLevels(props, levels) ==
    /\ Len(req') = Len(req) + levels
    /\ SubSeq(req', 1, Len(req)) = req
    /\ \A i \in 0..(levels - 1) :
          LET c == req'[Len(req) + i + 1]
          IN  /\ RestrictedTo(c.props.points, props.points, KeptAt(props.points, i))
              /\ [c.props EXCEPT !.points = props.points] = props
              /\ c.quality = (IF i = 0 THEN "high" ELSE "low")
              /\ c.useCache
              /\ ~c.adaptive

\* C16 as stated: generateLODs(props, N) issues exactly N requests, level i for the
\* points at the multiples of 2^i plus the final point, high quality for level 0
\* and low for the others, and none of the N has settled when the last is issued.
C16_AllIssuedBeforeAnySettles ==
    [][\A props \in LodProps, levels \in 1..DefaultLevels :
          GenerateLODs(props, levels) =>
             /\ IssuesLevels(props, levels)
             /\ \A i \in 1..levels : promise'[Len(req) + i].state = "pending"]_vars

\* C16 amended: generateLODs(props, N) issues exactly N requests, level i for the
\* points at the multiples of 2^i plus the final point, high quality for level 0
\* and low for the others, in one pass in which no response and no timeout is
\* handled; a level that is dispatched to the worker is pending at the end of the
\* pass, and a level that hits the cache or finds no worker is resolved by then.
C16_AllIssuedInOnePass ==
    [][\A props \in LodProps, levels \in 1..DefaultLevels :
          GenerateLODs(props, levels) =>
             /\ IssuesLevels(props, levels)
             /\ UNCHANGED <<fromWorker, geometryCache, worker>>
             /\ \A rid \in Issued :
                   /\ promise'[rid] = promise[rid]
                   /\ (rid \in callbacks') = (rid \in callbacks)
                   /\ (rid \in timers') = (rid \in timers)
             /\ \A i \in 1..levels :
                   LET rid == Len(req) + i
                       dispatched ==
                           /\ worker
                           /\ GetCacheKey(req'[rid].props, req'[rid].quality)
                                 \notin CacheKeys(geometryCache)
                   IN  IF dispatched
                       THEN /\ promise'[rid].state = "pending"
                            /\ rid \in callbacks'
                            /\ rid \in timers'
                       ELSE /\ promise'[rid].state = "resolved"
                            /\ rid \notin callbacks']_vars

C16_Witness ==
    \E k \in 1..Len(lods) :
        /\ Len(lods[k]) = DefaultLevels
        /\ promise[lods[k][1]].state = "pending"
        /\ lods[k][1] \in callbacks
        /\ promise[lods[k][2]].via = "cache"
        /\ promise[lods[k][3]].via = "cache"

\* ------------------------------------------------------------------ C17

\* the generateLODs calls made for 3 levels of a 40-point footprint
Lods40 ==
    {k \in 1..Len(lods) : Len(lods[k]) = 3 /\ Len(req[lods[k][1]].props.points) = 40}

\* C17 as stated: 3 LOD levels of a 40-point footprint are requested for
\* footprints of 40, 20 and 10 points.
C17_Counts40_20_10 ==
    \A k \in Lods40 :
        /\ Len(req[lods[k][1]].props.points) = 40
        /\ Len(req[lods[k][2]].props.points) = 20
        /\ Len(req[lods[k][3]].props.points) = 10

\* C17 amended: 3 LOD levels of a 40-point footprint are requested for
\* footprints of 40, 21 and 11 points: the 40, 20 and 10 points at strides 1, 2
\* and 4, and the final point (index 39), which is on neither the stride of 2 nor
\* the stride of 4.
C17_Counts40_21_11 ==
    \A k \in Lods40 :
        /\ Len(req[lods[k][1]].props.points) = 40
        /\ Len(req[lods[k][2]].props.points) = 21
        /\ Len(req[lods[k][3]].props.points) = 11
        /\ req[lods[k][2]].props.points[21] = req[lods[k][1]].props.points[40]
        /\ req[lods[k][3]].props.points[11] = req[lods[k][1]].props.points[40]

C17_Witness == \E k \in Lods40 : toWorker # <<>> /\ Len(Head(toWorker).points) = 11

\* ------------------------------------------------------------------ C18

\* the levels of the generateLODs call that request rid belongs to, rid left out
Siblings(rid) ==
    UNION {{lods[k][i] : i \in 1..Len(lods[k])} \ {rid} :
              k \in {j \in 1..Len(lods) : \E i \in 1..Len(lods[j]) : lods[j][i] = rid}}

\* C18: the promise generateLODs returned is resolved only when every level has
\* resolved, and its value lists the levels' meshes by level, whatever the order
\* they resolved in; a level that fails leaves the pending entries, timers,
\* messages and promises of its siblings as they are, and a sibling whose
\* response arrives after the failure still resolves and enters the cache.
C18_AllLevelsInOrder ==
    /\ [](\A k \in 1..Len(lods) :
             LodPromise(k).state = "resolved" =>
                /\ Len(LodPromise(k).value) = Len(lods[k])
                /\ \A i \in 1..Len(lods[k]) :
                      /\ promise[lods[k][i]].state = "resolved"
                      /\ LodPromise(k).value[i] = promise[lods[k][i]].value
                      /\ Len(req[lods[k][i]].props.points)
                            = Cardinality(KeptAt(req[lods[k][1]].props.points, i - 1)))
    /\ [][\A rid \in callbacks :
             Timeout(rid) =>
                /\ promise'[rid].state = "rejected"
                /\ \A s \in Siblings(rid) :
                      /\ (s \in callbacks') = (s \in callbacks)
                      /\ (s \in timers') = (s \in timers)
                      /\ promise'[s] = promise[s]
                /\ UNCHANGED <<toWorker, fromWorker, geometryCache>>]_vars
    /\ [][\A rid \in callbacks :
             (/\ OnMessage
              /\ Head(fromWorker).id = rid
              /\ Head(fromWorker).success
              /\ \E s \in Siblings(rid) : promise[s].state = "rejected") =>
                /\ promise'[rid].state = "resolved"
                /\ GetCacheKey(req[rid].props, req[rid].quality) \in CacheKeys(geometryCache')]_vars

C18_Witness ==
    \E k \in 1..Len(lods) :
        /\ Len(lods[k]) = DefaultLevels
        /\ promise[lods[k][1]].via = "worker"
        /\ promise[lods[k][2]].via = "cache"
        /\ promise[lods[k][3]].via = "cache"
        /\ LodPromise(k).state = "resolved"
        /\ Len(LodPromise(k).value) = DefaultLevels

\* ------------------------------------------------------------------ C22

\* C22: for every message it handles the worker posts exactly one response, with
\* the id of the message, that is either a success with data or a failure with an
\* error text; nothing else posts a response, and a message leaves the worker's
\* queue unanswered only when the worker is terminated.
C22_OneResponsePerMessage ==
    /\ [][WorkerStep =>
             LET m == Head(toWorker)
                 r == fromWorker'[Len(fromWorker')]
             IN  /\ toWorker' = Tail(toWorker)
                 /\ Len(fromWorker') = Len(fromWorker) + 1
                 /\ SubSeq(fromWorker', 1, Len(fromWorker)) = fromWorker
                 /\ r.id = m.id
                 /\ r.success => (r.error = "" /\ r.data.position.kind # "none")
                 /\ ~r.success => (r.error # "" /\ r.data.position.kind = "none")]_vars
    /\ [][Len(fromWorker') > Len(fromWorker) => WorkerStep]_vars
    /\ [][Len(toWorker') < Len(toWorker) => (WorkerStep \/ ~worker')]_vars

C22_Witness ==
    /\ Len(fromWorker) = 2
    /\ toWorker = <<>>
    /\ fromWorker[1].success
    /\ ~fromWorker[2].success
    /\ fromWorker[1].id = 1
    /\ fromWorker[2].id = 2

\* ------------------------------------------------------------------ C26

KeyOf(c) == GetCacheKey(c.props, c.quality)

\* C26: the cache holds at most one entry for a fingerprint; a request for a
\* fingerprint that is not cached is dispatched although a request for the same
\* fingerprint is pending; and a response that inserts a fingerprint already in
\* the cache keeps the number of entries and their order and disposes no entry.
C26_SameFingerprintInFlight ==
    /\ [](Cardinality(CacheKeys(geometryCache)) = Len(geometryCache))
    /\ [][\A c \in Calls :
             (/\ worker
              /\ \E r \in callbacks : KeyOf(req[r]) = KeyOf(c)
              /\ KeyOf(c) \notin CacheKeys(geometryCache)
              /\ RequestGeometry(c)) =>
                /\ (Len(req) + 1) \in callbacks'
                /\ toWorker' = Append(toWorker, Message(Len(req) + 1, c))]_vars
    /\ [][(/\ OnMessage
           /\ Head(fromWorker).success
           /\ Head(fromWorker).id \in callbacks
           /\ req[Head(fromWorker).id].useCache
           /\ KeyOf(req[Head(fromWorker).id]) \in CacheKeys(geometryCache)) =>
              /\ Len(geometryCache') = Len(geometryCache)
              /\ \A i \in 1..Len(geometryCache) :
                    /\ geometryCache'[i].key = geometryCache[i].key
                    /\ heap'[geometryCache[i].geo].disposed = heap[geometryCache[i].geo].disposed]_vars

C26_Witness ==
    /\ Len(req) = 2
    /\ KeyOf(req[1]) = KeyOf(req[2])
    /\ req[1].useCache
    /\ req[2].useCache
    /\ promise[1].via = "worker"
    /\ promise[2].via = "worker"
    /\ Len(geometryCache) = maxCacheSize
    /\ geometryCache[maxCacheSize].key = KeyOf(req[1])
    /\ geometryCache[1].key = GetCacheKey(FillProps(2), "high")

\* ------------------------------------------------------------------ C27

\* the geometries the worker generates for the calls
WorkerMeshes ==
    {GeometryFromData(WorkerResponse(Message(0, c)).data) :
        c \in {d \in Calls : Len(d.props.points) >= 3}}

\* C27: the no-worker fallback leaves the cache as it is, every cache entry holds
\* a geometry the worker generated, and so does every mesh a cache hit returned.
C27_ProxyNeverCached ==
    /\ [][\A c \in Calls : RequestFallback(c) => UNCHANGED geometryCache]_vars
    /\ [](\A i \in 1..Len(geometryCache) : heap[geometryCache[i].geo].geo \in WorkerMeshes)
    /\ [](\A rid \in Issued :
             promise[rid].via = "cache" => heap[promise[rid].value].geo \in WorkerMeshes)

C27_Witness ==
    /\ Len(req) = 2
    /\ req[1].useCache
    /\ promise[1].via = "worker"
    /\ req[2].useCache
    /\ KeyOf(req[2]) = KeyOf(req[1])
    /\ promise[2].via = "proxy"
    /\ heap[promise[2].value].geo \notin WorkerMeshes
    /\ geometryCache = <<>>

\* ------------------------------------------------------------------ C28

\* C28: a request with useCache = false leaves the cache as it is when it is made
\* and when it settles; with a worker it is dispatched whether or not its
\* fingerprint is cached.
C28_UseCacheFalseBypasses ==
    /\ [][\A c \in Calls :
             (~c.useCache /\ RequestGeometry(c)) =>
                /\ UNCHANGED geometryCache
                /\ worker => /\ (Len(req) + 1) \in callbacks'
                             /\ toWorker' = Append(toWorker, Message(Len(req) + 1, c))
                             /\ promise'[Len(req) + 1].state = "pending"
                /\ ~worker => promise'[Len(req) + 1].via = "proxy"]_vars
    /\ [][\A rid \in Issued :
             (/\ ~req[rid].useCache
              /\ \/ Timeout(rid)
                 \/ (OnMessage /\ Head(fromWorker).id = rid)) =>
                UNCHANGED geometryCache]_vars

C28_Witness ==
    /\ Len(req) = 2
    /\ req[1].useCache
    /\ promise[1].via = "worker"
    /\ ~req[2].useCache
    /\ KeyOf(req[2]) = KeyOf(req[1])
    /\ promise[2].via = "worker"
    /\ Len(geometryCache) = 1
    /\ geometryCache[1].key = KeyOf(req[1])
    /\ geometryCache[1].geo < promise[2].value

\* ------------------------------------------------------------------ the worker script on its own

\* a footprint of 0.2 by 0.2: extruded by 0.2 it has edges on both sides of 0.3
SmallTri == << <<0, 0>>, <<0, 4>>, <<4, 0>> >>

\* heights from none to 3.0, in thousandths
CalcHeights == {0 - 1000, 0, 1, 2, 3, 10, 200, 3000}

CalcMessages ==
    {Message(0, [props |-> [BaseProps EXCEPT !.points = p, !.form = f, !.type = t,
                                             !.height = h],
                 quality |-> q, useCache |-> TRUE, adaptive |-> a]) :
        p \in {Tri, SmallTri, TwoPts},
        f \in {"extrusion", "rounded", "pillow", "bubble"},
        t \in {"solid", "void"},
        h \in CalcHeights,
        q \in {"high", "low"},
        a \in BOOLEAN}

\* the extrude settings of message m in ten-thousandths, in which 0.3 * h is
\* exact for every height of whole thousandths
CalcSettings(m) == ExtrudeSettingsAt(10, m.form, m.type, 10 * m.height, m.quality)

\* self.onmessage run on calc.m: what it computes on the way to its response
CalcRun(m) ==
    IF Len(m.points) < 3
    THEN [valid |-> FALSE, response |-> WorkerResponse(m)]
    ELSE CHOOSE r \in
             {[valid |-> TRUE,
               settings |-> CalcSettings(m),
               geo |-> geo,
               out |-> WorkerSubdivision(m, geo),
               response |-> WorkerResponse(m)] :
                 geo \in {WorkerExtrusion(m, WorkerOutline(m))}} : TRUE

InitCalc ==
    /\ worker = TRUE
    /\ callbacks = {}
    /\ timers = {}
    /\ req = <<>>
    /\ promise = <<>>
    /\ toWorker = <<>>
    /\ fromWorker = <<>>
    /\ geometryCache = <<>>
    /\ heap = <<>>
    /\ instancedMeshes = {}
    /\ lods = <<>>
    /\ part = NoPart
    /\ refine = <<>>
    /\ store = <<>>
    /\ calc \in {[m |-> m, result |-> <<>>] : m \in CalcMessages}

WorkerRun ==
    /\ calc.result = <<>>
    /\ calc' = [calc EXCEPT !.result = <<CalcRun(calc.m)>>]
    /\ UNCHANGED <<worker, callbacks, timers, req, promise, toWorker, fromWorker,
                   geometryCache, heap, instancedMeshes, lods, part, refine, store>>

NextCalc == WorkerRun

SpecCalc == InitCalc /\ [][NextCalc]_vars

\* the run of the worker script on calc.m is over and the footprint was valid
CalcDone == calc.result # <<>> /\ calc.result[1].valid

\* the effective height of calc.m in ten-thousandths: the height when positive, else 0.1
CalcH == IF calc.m.height > 0 THEN 10 * calc.m.height ELSE 1000

\* C23 (as stated): for form pillow or bubble, with effective height h (the height
\* when positive, else 0.1), the bevel thickness is 0.3*h and the core depth is
\* max(0.001, h - 2*bevelThickness), so the core depth is strictly positive and
\* core depth + 2*bevelThickness equals h for every input height.
C23_DepthPlusBevelsIsHeight ==
    (CalcDone /\ calc.m.form \in {"pillow", "bubble"}) =>
        LET s == calc.result[1].settings
        IN  /\ 10 * s.bevelThickness = 3 * CalcH
            /\ s.depth = Max(10, CalcH - 2 * s.bevelThickness)
            /\ s.depth > 0
            /\ s.depth + 2 * s.bevelThickness = CalcH

\* C23 (amended): for form pillow or bubble the bevel thickness is 0.3*h and the
\* core depth is max(0.001, h - 2*bevelThickness), which is strictly positive;
\* core depth + 2*bevelThickness equals h when h >= 0.0025, and for a smaller h
\* the core depth is 0.001 and core depth + 2*bevelThickness exceeds h.
C23_DepthPlusBevelsFromFloor ==
    (CalcDone /\ calc.m.form \in {"pillow", "bubble"}) =>
        LET s == calc.result[1].settings
        IN  /\ 10 * s.bevelThickness = 3 * CalcH
            /\ s.depth = Max(10, CalcH - 2 * s.bevelThickness)
            /\ s.depth > 0
            /\ CalcH >= 25 => s.depth + 2 * s.bevelThickness = CalcH
            /\ CalcH < 25 => (s.depth = 10 /\ s.depth + 2 * s.bevelThickness > CalcH)

\* a pillow of height 0.002: depth 0.001 and bevels of 0.0006 each
C23_Witness ==
    /\ CalcDone
    /\ calc.m.form = "pillow"
    /\ calc.m.height = 2
    /\ calc.result[1].settings.depth = 10
    /\ calc.result[1].settings.bevelThickness = 6

\* the triangles of geo that have an edge longer than 0.3
OverThreshold(geo) == {k \in 1..Len(geo) : OverEdge(geo[k], 300)}

\* where the triangles that replace or keep triangle k of geo start in the result
OutOffset(geo, k) == (k - 1) + 3 * Cardinality({j \in OverThreshold(geo) : j < k})

\* C24: adaptive subdivision runs only when the adaptive flag is true, the form is
\* rounded, pillow or bubble and the quality is high; in that pass every triangle
\* with an edge longer than 0.3 is replaced by exactly 4 triangles built from its
\* corners and edge midpoints and every other triangle is kept unchanged, so a
\* mesh of T triangles with S over-threshold triangles becomes T + 3*S triangles.
C24_AdaptiveSubdivision ==
    CalcDone =>
        LET m == calc.m
            geo == calc.result[1].geo
            out == calc.result[1].out
            over == OverThreshold(geo)
        IN  IF m.adaptive /\ m.form \in {"rounded", "pillow", "bubble"} /\ m.quality = "high"
            THEN /\ Len(out) = Len(geo) + 3 * Cardinality(over)
                 /\ \A k \in 1..Len(geo) :
                       LET o == OutOffset(geo, k)
                           a == geo[k][1]
                           b == geo[k][2]
                           c == geo[k][3]
                       IN  IF k \in over
                           THEN /\ out[o + 1] = <<a, Mid(a, b), Mid(c, a)>>
                                /\ out[o + 2] = <<Mid(a, b), b, Mid(b, c)>>
                                /\ out[o + 3] = <<Mid(c, a), Mid(b, c), c>>
                                /\ out[o + 4] = <<Mid(a, b), Mid(b, c), Mid(c, a)>>
                           ELSE out[o + 1] = geo[k]
                 /\ calc.result[1].response.data.position.length = 9 * Len(out)
            ELSE /\ out = geo
                 /\ calc.result[1].response.data.position.length = 9 * Len(geo)

\* a subdivided mesh some of whose triangles were over the threshold and some not
C24_Witness ==
    /\ CalcDone
    /\ calc.m.adaptive /\ calc.m.form = "rounded" /\ calc.m.quality = "high"
    /\ OverThreshold(calc.result[1].geo) # {}
    /\ OverThreshold(calc.result[1].geo) # 1..Len(calc.result[1].geo)
    /\ Len(calc.result[1].out) =
           Len(calc.result[1].geo) + 3 * Cardinality(OverThreshold(calc.result[1].geo))

\* ------------------------------------------------------------------ generateLODs, to the end

\* footprints of 3, 4 and 40 points
Square == << <<0, 0>>, <<0, 200>>, <<200, 200>>, <<200, 0>> >>

LodFairProps ==
    { [BaseProps EXCEPT !.points = Tri],
      [BaseProps EXCEPT !.points = Square],
      [BaseProps EXCEPT !.points = Footprint40] }

\* generateLODs on an engine that is not disposed of meanwhile
NextLODFair ==
    \/ \E props \in LodFairProps, levels \in 1..DefaultLevels : GenerateLODs(props, levels)
    \/ WorkerStep
    \/ OnMessage
    \/ \E rid \in timers : Timeout(rid)
    \/ ClearCache

\* the worker answers every message it receives, and the event loop dispatches
\* every response and runs every timer that is due
SpecLODFair ==
    /\ InitLOD
    /\ [][NextLODFair]_vars
    /\ WF_vars(WorkerStep)
    /\ WF_vars(OnMessage)
    /\ WF_vars(\E rid \in timers : Timeout(rid))

\* C25: for every footprint of at least 3 points and every level count N >= 1,
\* the promise returned by generateLODs eventually settles (resolves with N
\* meshes or rejects), provided the worker answers every message it receives.
C25_LodsEventuallySettle ==
    \A k \in 1..MaxLodCalls :
        (Len(lods) >= k) ~> (Len(lods) >= k /\ LodPromise(k).state # "pending")

\* ------------------------------------------------------------------ ArchitecturalPart

\* part.alive     the component is mounted
\* part.mounted   mounted.current, the ref all runs of the effect share
\* part.el        <<the props of the last render>>, <<>> before the first
\* part.geometry  the geometry state: the mesh displayed, 0 for null
\* part.proxy     the proxy the last run of the effect generated
\* part.awaiting  the requests whose then-reaction has not run
\* part.latest    the request the last run of the effect made

\* the elements the component is rendered with: they differ in a dependency of the effect
PartEls ==
    { BaseProps,
      [BaseProps EXCEPT !.form = "bubble"],
      [BaseProps EXCEPT !.elevation = 3000] }

\* requestGeometry({...}, 'high'): the defaults useCache = true, adaptive = false
PartCall(el) == [props |-> el, quality |-> "high", useCache |-> TRUE, adaptive |-> FALSE]

\* return () => { mounted.current = false; }
Cleanup(p) == [p EXCEPT !.mounted = FALSE]

\* the body of the effect, run for element el by the component in state p
Effect(p, el) ==
    LET s == RequestGeometryIn(
                 [req |-> req, promise |-> promise, timers |-> timers,
                  callbacks |-> callbacks, toWorker |-> toWorker,
                  heap |-> Alloc(heap, GenerateProxy(el))],
                 PartCall(el))
    IN  /\ req' = s.req
        /\ promise' = s.promise
        /\ timers' = s.timers
        /\ callbacks' = s.callbacks
        /\ toWorker' = s.toWorker
        /\ heap' = s.heap
        /\ part' = [p EXCEPT !.alive = TRUE,
                             !.mounted = TRUE,
                             !.el = <<el>>,
                             !.geometry = Len(heap) + 1,
                             !.proxy = Len(heap) + 1,
                             !.awaiting = @ \cup {Len(req) + 1},
                             !.latest = Len(req) + 1]
        /\ UNCHANGED <<worker, fromWorker, geometryCache, instancedMeshes, lods,
                       calc, refine, store>>

\* a settled promise has a then-reaction queued: it runs before any other task
ReactionDue == \E rid \in part.awaiting : promise[rid].state # "pending"

\* the first render
Mount(el) ==
    /\ ~part.alive
    /\ part.el = <<>>
    /\ ~ReactionDue
    /\ Len(req) < MaxRequests
    /\ Effect(part, el)

\* a render with a changed dependency: the cleanup, then the effect again
PropsChange(el) ==
    /\ part.alive
    /\ part.el # <<el>>
    /\ ~ReactionDue
    /\ Len(req) < MaxRequests
    /\ Effect(Cleanup(part), el)

Unmount ==
    /\ part.alive
    /\ ~ReactionDue
    /\ part' = [Cleanup(part) EXCEPT !.alive = FALSE]
    /\ UNCHANGED <<worker, callbacks, timers, req, promise, toWorker, fromWorker,
                   geometryCache, heap, instancedMeshes, lods, calc, refine, store>>

\* .then(highPoly => { if (mounted.current) setGeometry(highPoly) }).catch(warn)
Reaction(rid) ==
    /\ rid \in part.awaiting
    /\ promise[rid].state # "pending"
    /\ part' = [part EXCEPT
                   !.awaiting = @ \ {rid},
                   !.geometry = IF promise[rid].state = "resolved" /\ part.mounted
                                THEN promise[rid].value ELSE @]
    /\ UNCHANGED <<worker, callbacks, timers, req, promise, toWorker, fromWorker,
                   geometryCache, heap, instancedMeshes, lods, calc, refine, store>>

PartOnMessage == ~ReactionDue /\ OnMessage

PartTimeout(rid) == ~ReactionDue /\ Timeout(rid)

NextPart ==
    \/ \E el \in PartEls : Mount(el)
    \/ \E el \in PartEls : PropsChange(el)
    \/ Unmount
    \/ \E rid \in part.awaiting : Reaction(rid)
    \/ WorkerStep
    \/ PartOnMessage
    \/ \E rid \in timers : PartTimeout(rid)

\* the mesh the worker generates for the bubble element
BubbleMesh ==
    GeometryFromData(
        WorkerResponse(Message(0, PartCall([BaseProps EXCEPT !.form = "bubble"]))).data)

\* a new engine, or one that has generated and cached the bubble element for an
\* earlier render; req and promise hold the calls made from there on
InitPart ==
    /\ callbacks = {}
    /\ timers = {}
    /\ req = <<>>
    /\ promise = <<>>
    /\ toWorker = <<>>
    /\ fromWorker = <<>>
    /\ instancedMeshes = {}
    /\ lods = <<>>
    /\ part = NoPart
    /\ calc = <<>>
    /\ refine = <<>>
    /\ store = <<>>
    /\ \/ /\ worker \in BOOLEAN
          /\ geometryCache = <<>>
          /\ heap = <<>>
       \/ /\ worker = TRUE
          /\ geometryCache =
                <<[key |-> KeyOf(PartCall([BaseProps EXCEPT !.form = "bubble"])), geo |-> 1]>>
          /\ heap = <<[geo |-> BubbleMesh, disposed |-> FALSE]>>

SpecPart == InitPart /\ [][NextPart]_vars

\* C21: in the ArchitecturalPart caller, a high-fidelity result that arrives
\* after the component unmounted or after its props changed (the effect was
\* cleaned up and re-run) is discarded: the displayed geometry is never replaced
\* by the result of a superseded request, so after all requests settle it
\* corresponds to the latest props.
C21_SupersededResultDiscarded ==
    /\ \A rid \in Issued :
          (rid # part.latest /\ promise[rid].state = "resolved")
              => part.geometry # promise[rid].value
    /\ (part.alive /\ part.awaiting = {} /\ callbacks = {})
          => \/ part.geometry = part.proxy
             \/ /\ promise[part.latest].state = "resolved"
                /\ part.geometry = promise[part.latest].value

\* ------------------------------------------------------------------ generateBIMDataWithRefinement

\* A model is described by what assessModelQuality reads of it: the number of
\* elements, whether one is a solid, the number of elements of fewer than 3
\* points, of elements without a positive height, of coordinates outside
\* 0..1000, and whether the scale is within 0.001..0.1.  Scores are hundredths.

\* the models generateBIMData returns: validateAndCorrectGeometry has dropped the
\* elements of fewer than 3 points and given every element a positive height
Models ==
    {[count |-> n, hasSolids |-> s, shortPoints |-> 0, noHeight |-> 0,
      outOfRange |-> IF n = 0 THEN 0 ELSE o, scaleOk |-> k] :
        n \in {0, 3, 7, 12}, s \in BOOLEAN, o \in {0, 1}, k \in BOOLEAN}

AssessModelQuality(model) ==
    Max(0, 100 - (IF model.count < 5 THEN 30 ELSE 0)
               - (IF model.count < 10 THEN 15 ELSE 0)
               - (IF ~model.hasSolids THEN 50 ELSE 0)
               - 10 * model.shortPoints
               - 5 * model.noHeight
               - 10 * model.outOfRange
               - (IF ~model.scaleOk THEN 20 ELSE 0))

\* refine.status       "idle", "running" (awaiting generateBIMData), "returned", "thrown"
\* refine.outcomes     what the calls of generateBIMData gave: <<model>>, or <<>> for a throw
NoRefine ==
    [status |-> "idle", maxAttempts |-> 0, attempt |-> 0, bestModel |-> <<>>,
     bestScore |-> 0, result |-> <<>>, outcomes |-> <<>>]

\* the code after the loop
AfterLoop(r) ==
    IF r.bestModel # <<>>
    THEN [r EXCEPT !.status = "returned", !.result = r.bestModel]
    ELSE [r EXCEPT !.status = "thrown"]

\* the loop from its test to the next await
LoopTest(r) == IF r.attempt < r.maxAttempts THEN [r EXCEPT !.status = "running"] ELSE AfterLoop(r)

\* generateBIMDataWithRefinement(image, visuals, n) up to its first await
CallRefine(n) ==
    /\ refine.status = "idle"
    /\ refine' = LoopTest([NoRefine EXCEPT !.maxAttempts = n])
    /\ UNCHANGED <<worker, callbacks, timers, req, promise, toWorker, fromWorker,
                   geometryCache, heap, instancedMeshes, lods, part, calc, store>>

\* the body of the loop after generateBIMData returned model, for state r
Scored(r, model) ==
    LET score == AssessModelQuality(model)
        b == IF score > r.bestScore
             THEN [r EXCEPT !.bestScore = score, !.bestModel = <<model>>]
             ELSE r
    IN  IF score >= 80
        THEN [b EXCEPT !.status = "returned", !.result = <<model>>]
        ELSE LoopTest([b EXCEPT !.attempt = @ + 1])

\* the awaited generateBIMData settles: outcome is <<model>>, or <<>> when it throws
Attempt(outcome) ==
    /\ refine.status = "running"
    /\ LET r == [refine EXCEPT !.outcomes = Append(@, outcome)]
       IN  refine' = IF outcome = <<>>
                     THEN LoopTest([r EXCEPT !.attempt = @ + 1])
                     ELSE Scored(r, outcome[1])
    /\ UNCHANGED <<worker, callbacks, timers, req, promise, toWorker, fromWorker,
                   geometryCache, heap, instancedMeshes, lods, part, calc, store>>

InitRefine ==
    /\ worker = TRUE
    /\ callbacks = {}
    /\ timers = {}
    /\ req = <<>>
    /\ promise = <<>>
    /\ toWorker = <<>>
    /\ fromWorker = <<>>
    /\ geometryCache = <<>>
    /\ heap = <<>>
    /\ instancedMeshes = {}
    /\ lods = <<>>
    /\ part = NoPart
    /\ calc = <<>>
    /\ store = <<>>
    /\ refine = NoRefine

NextRefine ==
    \/ \E n \in 0..MaxAttempts : CallRefine(n)
    \/ \E outcome \in {<<>>} \cup {<<m>> : m \in Models} : Attempt(outcome)

SpecRefine == InitRefine /\ [][NextRefine]_vars

\* the attempts that produced a model
Produced == {i \in 1..Len(refine.outcomes) : refine.outcomes[i] # <<>>}

ScoreOf(i) == AssessModelQuality(refine.outcomes[i][1])

\* C29: generateBIMDataWithRefinement calls generateBIMData at most maxAttempts
\* times, returns immediately the first model whose quality score is at least
\* 0.8, otherwise returns the highest-scoring model produced by any attempt, and
\* throws only when every attempt failed to produce a model.
C29_ReturnsBestThrowsOnlyWithoutModel ==
    /\ Len(refine.outcomes) <= refine.maxAttempts
    /\ \A i \in Produced :
          ScoreOf(i) >= 80 =>
              /\ i = Len(refine.outcomes)
              /\ refine.status = "returned"
              /\ refine.result = refine.outcomes[i]
    /\ (refine.status = "returned" /\ \A i \in Produced : ScoreOf(i) < 80) =>
          /\ \E i \in Produced : refine.result = refine.outcomes[i]
          /\ \A i \in Produced : AssessModelQuality(refine.result[1]) >= ScoreOf(i)
    /\ refine.status = "thrown" => Produced = {}

\* ------------------------------------------------------------------ useStore

\* null is 0; an image is its url: 1 an upload, 2 an edited revision; a revision
\* is [id, url], id 0 for 'orig' and the position in the history for `rev_${Date.now()}`

DEFAULT_VIEW_STATE == [zoom |-> 1, pan |-> <<0, 0>>, showGrid |-> TRUE,
                       showBackground |-> TRUE, cutPlane |-> 100]

DEFAULT_LAYERS == [solid |-> TRUE, void |-> TRUE, component |-> TRUE]

InitialStore ==
    [image |-> 0,
     imageHistory |-> <<>>,
     generatedViews |-> <<>>,
     model |-> <<>>,
     selectedElementId |-> 0,
     layerVisibility |-> DEFAULT_LAYERS,
     viewState |-> DEFAULT_VIEW_STATE,
     isProcessing |-> FALSE,
     isGeneratingViews |-> FALSE,
     isEditingImage |-> FALSE,
     viewMode |-> "2D",
     is3DReady |-> FALSE,
     error |-> 0]

EngineIdle ==
    UNCHANGED <<worker, callbacks, timers, req, promise, toWorker, fromWorker,
                geometryCache, heap, instancedMeshes, lods, part, calc, refine>>

\* the state after setImage(image) in state s
AfterSetImage(s, image) ==
    IF s.image = 0 /\ image # 0
    THEN [s EXCEPT !.image = image, !.imageHistory = <<[id |-> 0, url |-> image]>>]
    ELSE [s EXCEPT !.image = image]

SetImage(image) ==
    /\ store' = AfterSetImage(store, image)
    /\ EngineIdle

AddImageRevision(url) ==
    /\ Len(store.imageHistory) < MaxHistory
    /\ store' = [store EXCEPT !.image = url,
                              !.imageHistory = Append(@, [id |-> Len(@) + 1, url |-> url])]
    /\ EngineIdle

SelectImageRevision(id) ==
    /\ store' = IF \E i \in 1..Len(store.imageHistory) : store.imageHistory[i].id = id
                THEN [store EXCEPT !.image =
                         store.imageHistory[CHOOSE i \in 1..Len(store.imageHistory) :
                                               /\ store.imageHistory[i].id = id
                                               /\ \A j \in 1..(i - 1) :
                                                     store.imageHistory[j].id # id].url]
                ELSE store
    /\ EngineIdle

SetGeneratedViews(views) ==
    /\ store' = [store EXCEPT !.generatedViews = views]
    /\ EngineIdle

\* a model is <<the material of its element 1>>, null is <<>>
SetModel(model) ==
    /\ store' = [store EXCEPT !.model = model]
    /\ EngineIdle

SelectElement(id) ==
    /\ store' = [store EXCEPT !.selectedElementId = id]
    /\ EngineIdle

UpdateElementMaterial(id, material) ==
    /\ store' = IF store.model = <<>> THEN store
                ELSE [store EXCEPT !.model = IF id = 1 THEN <<material>> ELSE @]
    /\ EngineIdle

ToggleLayer(type) ==
    /\ store' = [store EXCEPT !.layerVisibility[type] = ~@]
    /\ EngineIdle

\* setViewState({zoom}) and setViewState({showGrid})
SetViewStateZoom(zoom) ==
    /\ store' = [store EXCEPT !.viewState.zoom = zoom]
    /\ EngineIdle

SetViewStateGrid(showGrid) ==
    /\ store' = [store EXCEPT !.viewState.showGrid = showGrid]
    /\ EngineIdle

SetIsProcessing(loading) ==
    /\ store' = [store EXCEPT !.isProcessing = loading]
    /\ EngineIdle

SetIsGeneratingViews(loading) ==
    /\ store' = [store EXCEPT !.isGeneratingViews = loading]
    /\ EngineIdle

SetIsEditingImage(loading) ==
    /\ store' = [store EXCEPT !.isEditingImage = loading]
    /\ EngineIdle

SetViewMode(mode) ==
    /\ store' = [store EXCEPT !.viewMode = mode]
    /\ EngineIdle

SetIs3DReady(ready) ==
    /\ store' = [store EXCEPT !.is3DReady = ready]
    /\ EngineIdle

SetError(error) ==
    /\ store' = [store EXCEPT !.error = error]
    /\ EngineIdle

\* the state after reset() in state s: the eleven fields the call names
AfterReset(s) ==
    [s EXCEPT !.image = 0,
              !.imageHistory = <<>>,
              !.model = <<>>,
              !.isProcessing = FALSE,
              !.error = 0,
              !.generatedViews = <<>>,
              !.is3DReady = FALSE,
              !.isEditingImage = FALSE,
              !.selectedElementId = 0,
              !.layerVisibility = DEFAULT_LAYERS,
              !.viewState = DEFAULT_VIEW_STATE]

Reset ==
    /\ store' = AfterReset(store)
    /\ EngineIdle

\* FileUploader.handleProcess: reset(); setImage(base64); setIsProcessing(true)
HandleProcess(base64) ==
    /\ store' = [AfterSetImage(AfterReset(store), base64) EXCEPT !.isProcessing = TRUE]
    /\ EngineIdle

InitStore ==
    /\ worker = TRUE
    /\ callbacks = {}
    /\ timers = {}
    /\ req = <<>>
    /\ promise = <<>>
    /\ toWorker = <<>>
    /\ fromWorker = <<>>
    /\ geometryCache = <<>>
    /\ heap = <<>>
    /\ instancedMeshes = {}
    /\ lods = <<>>
    /\ part = NoPart
    /\ calc = <<>>
    /\ refine = <<>>
    /\ store = InitialStore

NextStore ==
    \/ \E image \in {0, 1} : SetImage(image)
    \/ AddImageRevision(2)
    \/ \E id \in 0..MaxHistory : SelectImageRevision(id)
    \/ \E views \in {<<>>, <<1>>} : SetGeneratedViews(views)
    \/ \E model \in {<<>>, <<"concrete">>} : SetModel(model)
    \/ \E id \in {0, 1} : SelectElement(id)
    \/ UpdateElementMaterial(1, "glass")
    \/ \E type \in {"solid", "void"} : ToggleLayer(type)
    \/ \E zoom \in {1, 2} : SetViewStateZoom(zoom)
    \/ \E showGrid \in BOOLEAN : SetViewStateGrid(showGrid)
    \/ \E loading \in BOOLEAN : SetIsProcessing(loading)
    \/ \E loading \in BOOLEAN : SetIsGeneratingViews(loading)
    \/ \E loading \in BOOLEAN : SetIsEditingImage(loading)
    \/ \E mode \in {"2D", "3D"} : SetViewMode(mode)
    \/ \E ready \in BOOLEAN : SetIs3DReady(ready)
    \/ \E error \in {0, 1} : SetError(error)
    \/ Reset
    \/ HandleProcess(1)

SpecStore == InitStore /\ [][NextStore]_vars

\* C30: from any reachable application state, store.reset() returns every field
\* of AppState to its initial value, so the state after reset equals the store's
\* initial state.
C30_ResetRestoresInitialState == [][Reset => store' = InitialStore]_vars

====
